---- MODULE Spec2Model ----
(***************************************************************************)
(* Kandor Schedulify (src/app.py): availability computation and the        *)
(* booking protocol of the guest-facing booking page, against one host's   *)
(* external calendar.                                                      *)
(*                                                                         *)
(* Time is counted in minutes.  A time of day is a number in 0..1439, a    *)
(* calendar day is a small integer, and a local instant is                 *)
(* day * 1440 + time of day.  The calendar service stores instants in UTC; *)
(* the host's zone is a fixed offset from UTC (no DST change inside the    *)
(* modelled days).  The server's date (dt.date.today) is read in the same  *)
(* zone as the host's clock.                                               *)
(***************************************************************************)
EXTENDS Integers, Sequences, FiniteSets, TLC

VARIABLES
    now,        \* the clock: local instant, in minutes
    users,      \* the host's stored profile (users_col document)
    cal,        \* the host's external calendar: a set of events
    session,    \* per guest: st.session_state of the booking page
    pc,         \* per guest: position of the booking_page script run
    run,        \* per guest: locals and outputs of the current / last run
    sm,         \* slot-math harness: inputs and result of build_slots
    auth,       \* sign-in: the auth_flows collection and the redirects in flight
    rd          \* event-list harness: a response and what Reader and Guard make of it

vars == <<now, users, cal, session, pc, run, sm, auth, rd>>

-----------------------------------------------------------------------------
(* Bounds of the model *)

MaxBookings == 2        \* bookings explored with two guests
MaxHostBookings == 1    \* bookings explored while settings and clock change
MaxRenewals == 1        \* renewals that change the stored token cache

(* Program constants *)

MIN_LEAD_MINUTES == 5
BUSY_STATUSES == {"busy", "oof", "workingelsewhere", "tentative"}
RECHECK_EACH_SLOT == TRUE

DayMinutes == 24 * 60
TzOffset == 5 * 60 + 30     \* Asia/Kolkata, the profile's default zone

Guest1 == "g1"
Guest2 == "g2"
Guests == {Guest1, Guest2}
Days == {0, 1}              \* the calendar days a guest can pick: today, tomorrow
NoSlot == -1
NoDate == -1

-----------------------------------------------------------------------------
(* Dates, times of day, zones *)

DateOf(t) == t \div DayMinutes
TimeOf(t) == t % DayMinutes
Combine(day, tod) == day * DayMinutes + tod
ToUTC(local) == local - TzOffset
FromUTC(utc) == utc + TzOffset
Weekday(day) == day % 7

Max2(a, b) == IF a >= b THEN a ELSE b
Min2(a, b) == IF a <= b THEN a ELSE b

-----------------------------------------------------------------------------
(* Slot math (no buffer) *)

\* a variant that also counts intervals meeting at an endpoint
overlap_closed(a_start, a_end, b_start, b_end) ==
    Max2(a_start, b_start) <= Min2(a_end, b_end)

\* a slot and a busy interval overlap when they share more than an endpoint
overlap(a_start, a_end, b_start, b_end) ==
    Max2(a_start, b_start) < Min2(a_end, b_end)

\* a variant that drops a slot ending exactly at the end of the work day
fits_strict(t, step, end) == t + step < end

\* the loop condition of build_slots: the slot must end within the work day
fits(t, step, end) == t + step <= end

\* the while loop of build_slots: t and end are instants of the same day,
\* busy is the list of (start, end) times of day (its order is immaterial)
RECURSIVE build_loop(_, _, _, _)
build_loop(t, end, step, busy) ==
    IF fits(t, step, end)
    THEN LET s == TimeOf(t)
             e == TimeOf(t + step)
             hit == \E b \in busy : overlap(s, e, b[1], b[2])
         IN (IF hit THEN <<>> ELSE <<s>>) \o build_loop(t + step, end, step, busy)
    ELSE <<>>

build_slots(day, work_start, work_end, meeting_minutes, busy) ==
    build_loop(Combine(day, work_start), Combine(day, work_end),
               meeting_minutes, busy)

-----------------------------------------------------------------------------
(* Slot-math harness: build_slots applied to inputs drawn from small sets *)

SMStarts == {540, 600}
SMEnds == {540, 570, 600, 660, 1020}
SMDurations == {15, 30, 60}
SMBusy == {<<600, 630>>, <<555, 575>>, <<540, 600>>, <<630, 645>>}
SMIdle == [ws |-> 540, we |-> 540, dur |-> 30, busy |-> {}, out |-> <<>>,
           done |-> FALSE]

SMInputs ==
    {[ws |-> a, we |-> b, dur |-> d, busy |-> bz, out |-> <<>>, done |-> FALSE] :
        a \in SMStarts, b \in SMEnds, d \in SMDurations, bz \in SUBSET SMBusy}

SMCompute ==
    /\ ~sm.done
    /\ sm' = [sm EXCEPT !.out = build_slots(0, sm.ws, sm.we, sm.dur, sm.busy),
                        !.done = TRUE]
    /\ UNCHANGED <<now, users, cal, session, pc, run, auth, rd>>

SMReset ==
    /\ sm.done
    /\ sm' \in SMInputs
    /\ UNCHANGED <<now, users, cal, session, pc, run, auth, rd>>

-----------------------------------------------------------------------------
(* The external calendar (Microsoft Graph) as the program uses it *)


ReadStatuses == {200, 503}          \* GET /me/calendarView
CreateStatuses == {201, 200, 409}   \* POST /me/events
MailStatuses == {202, 500}          \* POST /me/sendMail

\* no answer within the 20 seconds of requests.get(..., timeout=20): the
\* call raises requests.exceptions.Timeout in place of returning a response
Timeout == 0
read_raises(status) == status = Timeout

\* str.lower on the showAs tags that occur
Lower(tag) ==
    CASE tag = "Tentative" -> "tentative"
      [] tag = "workingElsewhere" -> "workingelsewhere"
      [] OTHER -> tag

\* a variant that returns only the events that start inside the range
calendarView_starting(start_utc, end_utc) ==
    {[start |-> FromUTC(ev.s), end |-> FromUTC(ev.e), showAs |-> ev.showAs,
      isCancelled |-> ev.isCancelled, id |-> ev.id] :
        ev \in {x \in cal : start_utc <= x.s /\ x.s < end_utc}}

\* the events the service returns for a UTC range: those that intersect it,
\* with start and end in the zone named by the Prefer header
calendarView(start_utc, end_utc) ==
    {[start |-> FromUTC(ev.s), end |-> FromUTC(ev.e), showAs |-> ev.showAs,
      isCancelled |-> ev.isCancelled, id |-> ev.id] :
        ev \in {x \in cal : x.s < end_utc /\ x.e > start_utc}}

\* a variant that hands on whatever the response holds, whatever its status
graph_day_view_any(status, start_utc, end_utc) == calendarView(start_utc, end_utc)

graph_day_view(status, start_utc, end_utc) ==
    IF status = 200 THEN calendarView(start_utc, end_utc) ELSE {}

\* (ev.get("showAs") or "busy").lower()
show_as(ev) == Lower(IF ev.showAs = "" THEN "busy" ELSE ev.showAs)

\* a variant that compares the tag as it is written
guard_blocking_exact(ev) ==
    /\ ~ev.isCancelled
    /\ (IF ev.showAs = "" THEN "busy" ELSE ev.showAs)
         \in {"busy", "oof", "workingelsewhere", "tentative"}

\* lines 214-217: the events that make is_interval_free return False
guard_blocking(ev) ==
    /\ ~ev.isCancelled
    /\ show_as(ev) \in {"busy", "oof", "workingelsewhere", "tentative"}

\* lines 213-219: the loop of is_interval_free over the events it got
interval_free(events) == \A ev \in events : ~guard_blocking(ev)

is_interval_free(status, start_local, end_local) ==
    interval_free(graph_day_view(status, ToUTC(start_local), ToUTC(end_local)))

\* a variant that posts the event without a blocking status
new_event_free(id, start_local, end_local, attendee) ==
    [id |-> id, s |-> ToUTC(start_local), e |-> ToUTC(end_local),
     showAs |-> "free", isCancelled |-> FALSE, attendees |-> {attendee}]

\* the event graph_create_event posts: showAs busy, a fresh transactionId
new_event(id, start_local, end_local, attendee) ==
    [id |-> id, s |-> ToUTC(start_local), e |-> ToUTC(end_local),
     showAs |-> "busy", isCancelled |-> FALSE, attendees |-> {attendee}]

create_ok(status) == status \in {201, 200}
mail_ok(status) == status \in {202, 200}

\* lines 654-656: the events the busy list of booking_page is built from
reader_blocking(ev) == ~ev.isCancelled /\ show_as(ev) \in BUSY_STATUSES

\* a start or end of a returned event that datetime.fromisoformat refuses,
\* or that the event lacks
Malformed == -1
parses(ts) == ts # Malformed

\* a variant that gives up the whole list when one event cannot be read
busy_of_all_or_nothing(events) ==
    IF \E x \in events : reader_blocking(x) /\ ~(parses(x.start) /\ parses(x.end))
    THEN {}
    ELSE {<<TimeOf(ev.start), TimeOf(ev.end)>> : ev \in {x \in events : reader_blocking(x)}}

\* the busy list booking_page builds from the day's events (lines 652-662):
\* an event whose start or end raises is passed over by the except clause
busy_of(events) ==
    {<<TimeOf(ev.start), TimeOf(ev.end)>> :
        ev \in {x \in events : /\ reader_blocking(x)
                                /\ parses(x.start) /\ parses(x.end)}}

\* Event-list harness: the busy list of the Reader and the verdict of the
\* Guard on responses drawn from events of every kind of tag, cancelled
\* events, and events whose start or end cannot be read
RDMaxEvents == 3
RDEvents ==
    {[id |-> 1, start |-> 540, end |-> 570, showAs |-> "busy", isCancelled |-> FALSE],
     [id |-> 2, start |-> 540, end |-> 570, showAs |-> "free", isCancelled |-> FALSE],
     [id |-> 3, start |-> 570, end |-> 600, showAs |-> "Tentative", isCancelled |-> FALSE],
     [id |-> 4, start |-> 600, end |-> 630, showAs |-> "", isCancelled |-> FALSE],
     [id |-> 5, start |-> 630, end |-> 660, showAs |-> "workingElsewhere", isCancelled |-> FALSE],
     [id |-> 6, start |-> 660, end |-> 690, showAs |-> "busy", isCancelled |-> TRUE],
     [id |-> 7, start |-> Malformed, end |-> 750, showAs |-> "busy", isCancelled |-> FALSE],
     [id |-> 8, start |-> 780, end |-> Malformed, showAs |-> "oof", isCancelled |-> FALSE]}

RDIdle == [events |-> {}, busy |-> {}, free |-> FALSE, done |-> FALSE]

RDInputs ==
    {[events |-> es, busy |-> {}, free |-> FALSE, done |-> FALSE] :
        es \in {x \in SUBSET RDEvents : Cardinality(x) <= RDMaxEvents}}

RDCompute ==
    /\ ~rd.done
    /\ rd' = [rd EXCEPT !.busy = busy_of(rd.events),
                        !.free = interval_free(rd.events),
                        !.done = TRUE]
    /\ UNCHANGED <<now, users, cal, session, pc, run, sm, auth>>

RDReset ==
    /\ rd.done
    /\ rd' \in RDInputs
    /\ UNCHANGED <<now, users, cal, session, pc, run, sm, auth>>

\* the local day [00:00:00, 23:59:59]; every instant of the model is a whole
\* minute, so the range ends with the day's last minute
day_start(date) == Combine(date, 0)
day_end(date) == Combine(date, DayMinutes - 1) + 1

\* same-day lead-time filter
cutoff_of(now_local) == TimeOf(now_local + MIN_LEAD_MINUTES)
after_cutoff(t, cutoff) == t > cutoff
lead_filter(slots, selected_date, now_local) ==
    IF selected_date = DateOf(now_local)
    THEN SelectSeq(slots, LAMBDA t : after_cutoff(t, cutoff_of(now_local)))
    ELSE slots

-----------------------------------------------------------------------------
(* State of the booking flow *)

\* the settings the host saves: <<start, end, duration, working days>>
Settings ==
    {<<540, 600, 30, 0..4>>, <<540, 600, 60, 0..4>>, <<600, 540, 30, 0..4>>,
     <<540, 600, 30, {1}>>}
SlotTimes == {540, 570}
Emails == {"", "host@example.org"}
NowTimes == {480, 535, 1437}
NowValues == {Combine(0, t) : t \in NowTimes}

\* events the host adds from another client (local times of day 0)
HostEvents ==
    {[id |-> -1, s |-> ToUTC(Combine(0, 570)), e |-> ToUTC(Combine(0, 600)),
      showAs |-> "busy", isCancelled |-> FALSE, attendees |-> {}]}

\* events of other shapes the host can have: an all-day event of day 0, an
\* event from the evening of day 0 into the morning of day 1, an event from
\* the morning of day 0 to the midnight that ends it
DayEvents ==
    HostEvents \cup
    {[id |-> -2, s |-> ToUTC(Combine(0, 0)), e |-> ToUTC(Combine(1, 0)),
      showAs |-> "busy", isCancelled |-> FALSE, attendees |-> {}],
     [id |-> -3, s |-> ToUTC(Combine(0, 1380)), e |-> ToUTC(Combine(1, 570)),
      showAs |-> "busy", isCancelled |-> FALSE, attendees |-> {}],
     [id |-> -4, s |-> ToUTC(Combine(0, 570)), e |-> ToUTC(Combine(1, 0)),
      showAs |-> "busy", isCancelled |-> FALSE, attendees |-> {}]}

NoGuard == [s |-> -1, e |-> -1, read_ok |-> FALSE, free |-> FALSE]
NoCall == [s |-> -1, e |-> -1, ok |-> FALSE]

\* the serialized token cache of a profile is followed by its generation:
\* NoCache when none is stored, SignInCache as written by the sign-in, one
\* more with every renewal that changed it
NoCache == 0
SignInCache == 1

\* a stored profile: the working days Monday-Friday and the zone of a new
\* profile, the hours and the duration as last saved
Profile(email, ws, we, dur) ==
    [email |-> email, meeting_duration |-> dur, available_days |-> 0..4,
     start_time |-> ws, end_time |-> we, msal_cache |-> SignInCache]
NewUser(email) == Profile(email, 540, 600, 30)

\* a profile whose cache has gone through the renewals explored: booking is
\* followed for a host who signed in some time ago
Renewed(profile) == [profile EXCEPT !.msal_cache = SignInCache + MaxRenewals]

\* sign-in: state ids handed out by initiate_auth_code_flow, requests to the
\* redirect URI that can be in flight together, and what
\* acquire_token_by_auth_code_flow can give: a result with access_token and
\* account id, one without the account id, an error result, an exception
AuthStates == {"s1"}
Redirects == {"tab1", "tab2"}
ExchangeOutcomes == {"token", "no_oid", "error", "raise"}
NoResult == "none"

\* a redirect request: where finish_auth_redirect stands, the state id of
\* its query, the result of its exchange, its message; late records that
\* an exchange attempt for the id was already over when the request came
ReqIdle == [pc |-> "idle", state |-> "", result |-> NoResult, msg |-> "",
            late |-> FALSE]

\* flows: the ids with a record in auth_flows; issued: ids ever handed out;
\* exchanges: calls of the code exchange per id; attempted: ids for which
\* an exchange attempt has run to its end
AuthIdle == [flows |-> {}, issued |-> {}, req |-> [q \in Redirects |-> ReqIdle],
             exchanges |-> [s \in AuthStates |-> 0], attempted |-> {}]

RunIdle ==
    [kind |-> "none", arg |-> 0, user |-> NewUser(""),
     today |-> NoDate, date |-> NoDate, token |-> FALSE, cache |-> NoCache,
     view_ok |-> FALSE, nowl |-> -1, busy |-> {}, raw |-> <<>>,
     slots |-> <<>>, idx |-> 0, keep |-> <<>>, form |-> FALSE,
     chosen |-> NoSlot, guard |-> NoGuard, created |-> NoCall,
     ncreate |-> 0, nmail |-> 0, mail_ok |-> FALSE, msgs |-> {}]

\* the locals of the availability computation are dead once the slots are shown
shown(r) == [r EXCEPT !.view_ok = FALSE, !.busy = {}, !.raw = <<>>, !.idx = 0,
                      !.keep = <<>>, !.cache = NoCache]

\* the script run is over: the widget event that started it is consumed
finish(r) == [r EXCEPT !.kind = "none", !.arg = 0]

\* an exception nothing catches ends the script run where it is raised; the
\* page shows the exception in place of what the run had still to render
aborted(r) == finish([shown(r) EXCEPT !.slots = <<>>, !.form = FALSE,
                                      !.msgs = {"unhandled_exception"}])

Init ==
    /\ now = Combine(0, 480)
    /\ users \in {Renewed(Profile(m, 540, 600, 60)) : m \in Emails}
    /\ cal = {}
    /\ session = [g \in Guests |-> [picked_date |-> NoDate, selected_slot_time |-> NoSlot]]
    /\ pc = [g \in Guests |-> "idle"]
    /\ run = [g \in Guests |-> RunIdle]
    /\ sm = SMIdle
    /\ auth = AuthIdle
    /\ rd = RDIdle

-----------------------------------------------------------------------------
(* booking_page: one script run per guest action, one step per remote call *)

enabled_day(d, working_days, today) == Weekday(d) \in working_days /\ d >= today

\* calendar_widget: a click on an enabled day replaces the selected day
calendar_widget(selected, working_days, today, clicked) ==
    IF clicked # NoDate /\ enabled_day(clicked, working_days, today)
    THEN clicked ELSE selected

\* acquire_token_silent on the cache of the profile: a token out of the cache
\* as it is ("cached"), a token with the cache changed by the renewal
\* ("renewed"), or no token, the refresh token being dropped from the cache
\* in memory ("invalid_grant"); without accounts it is not called
SilentOutcomes == {"invalid_grant", "cached", "renewed"}
\* with each outcome, whether the update of the profile goes through
Renewals == {<<o, TRUE>> : o \in SilentOutcomes} \cup {<<"renewed", FALSE>>}
acquire_token_silent(serialized, outcome) ==
    IF serialized = NoCache
    THEN [access_token |-> FALSE, has_state_changed |-> FALSE, cache |-> serialized]
    ELSE [access_token |-> outcome \in {"cached", "renewed"},
          has_state_changed |-> outcome \in {"invalid_grant", "renewed"},
          cache |-> IF outcome = "renewed" THEN serialized + 1
                    ELSE IF outcome = "invalid_grant" THEN NoCache
                    ELSE serialized]

\* persist_cache_for_user: the changed cache is written to the profile; an
\* update that raises is swallowed
persist_cache_for_user(stored, res, write_ok) ==
    IF res.has_state_changed /\ write_ok THEN res.cache ELSE stored

\* a variant that writes the cache back whatever the renewal gave
get_access_token_persist_always(user_doc, stored, outcome, write_ok) ==
    LET res == acquire_token_silent(user_doc.msal_cache, outcome)
    IN [token |-> res.access_token, cache |-> res.cache,
        stored |-> persist_cache_for_user(stored, res, write_ok)]

\* get_access_token_for_user_doc on the profile as read (user_doc), against
\* the cache now stored: the token, or none, the cache in memory after the
\* renewal, and the cache stored afterwards
get_access_token_for_user_doc(user_doc, stored, outcome, write_ok) ==
    LET res == acquire_token_silent(user_doc.msal_cache, outcome)
    IN [token |-> res.access_token, cache |-> res.cache,
        stored |-> IF res.access_token
                   THEN persist_cache_for_user(stored, res, write_ok)
                   ELSE stored]

\* a variant that goes on to the calendar whatever the credential
after_token_always(token) == "view"

\* where booking_page goes with the credential (lines 639-643)
after_token(token) == IF token THEN "view" ELSE "done"

\* lines 604-643: resolve the host, the day, the credential
Begin(g, kind, arg) ==
    LET user == users
        today == DateOf(now)
        prev == IF session[g].picked_date = NoDate THEN today ELSE session[g].picked_date
        picked == calendar_widget(prev, user.available_days, today,
                                  IF kind = "pick" THEN arg ELSE NoDate)
        r == [RunIdle EXCEPT !.kind = kind, !.arg = arg, !.user = user, !.today = today, !.date = picked]
    IN /\ session' = [session EXCEPT ![g].picked_date = picked]
       /\ IF Weekday(picked) \notin user.available_days
          THEN /\ run' = [run EXCEPT ![g] = finish([r EXCEPT !.msgs = {"choose_working_day"}])]
               /\ pc' = [pc EXCEPT ![g] = "done"]
               /\ UNCHANGED users
          ELSE \E o \in Renewals :
                 LET got == get_access_token_for_user_doc(user, users.msal_cache, o[1], o[2])
                     next == after_token(got.token)
                 IN /\ o[1] = "renewed" => users.msal_cache < SignInCache + MaxRenewals
                    /\ users' = [users EXCEPT !.msal_cache = got.stored]
                    /\ pc' = [pc EXCEPT ![g] = next]
                    /\ run' = [run EXCEPT ![g] =
                                IF next = "done"
                                THEN finish([r EXCEPT !.token = got.token,
                                                      !.msgs = {"not_connected"}])
                                ELSE [r EXCEPT !.token = got.token,
                                               !.cache = got.cache]]
       /\ UNCHANGED <<now, cal, sm, auth, rd>>

Idle(g) == pc[g] \in {"idle", "done"}

\* the events on the calendar that graph_create_event put there, and the
\* guests whose Confirm is being processed
Booked == {ev \in cal : ev.id > 0}
Confirming == {g \in Guests : run[g].kind = "confirm" /\ pc[g] \notin {"idle", "done"}}

\* the guest opens or reloads the page
Load(g) ==
    /\ Idle(g)
    /\ Begin(g, "none", 0)

\* the guest clicks a day button of the rendered month calendar
PickDate(g, d) ==
    /\ pc[g] = "done"
    /\ enabled_day(d, run[g].user.available_days, run[g].today)
    /\ Begin(g, "pick", d)

\* the guest clicks one of the rendered slot buttons
ClickSlot(g, t) ==
    /\ pc[g] = "done"
    /\ run[g].form
    /\ \E i \in 1..Len(run[g].slots) : run[g].slots[i] = t
    /\ Begin(g, "slot", t)

\* the guest submits the form, with or without name and email filled in
Confirm(g, filled, cap) ==
    /\ pc[g] = "done"
    /\ run[g].form
    /\ Cardinality(Booked) + Cardinality(Confirming) < cap
    /\ Begin(g, "confirm", IF filled THEN 1 ELSE 0)

\* st.rerun(): the script starts over with no widget event
Rerun(g) ==
    /\ pc[g] = "rerun"
    /\ Begin(g, "none", 0)

InSeq(x, sq) == \E i \in 1..Len(sq) : sq[i] = x

\* a variant that goes on to create the event whatever the check says
after_guard_always(free) == "create"

\* where the script goes after the commit-time check (lines 720-722)
after_guard(free) == IF free THEN "create" ELSE "rerun"

\* a variant that does not look at the outcome of the create call
after_create_blind(ok, host_email) == IF host_email # "" THEN "mail" ELSE "done"

\* a variant that never notifies the host
after_create_silent(ok, host_email) == IF ok THEN "done" ELSE "rerun"

\* where the script goes after graph_create_event (lines 741-762)
after_create(ok, host_email) ==
    IF ok THEN (IF host_email # "" THEN "mail" ELSE "done") ELSE "rerun"

\* lines 684-718: show the slot buttons and the form, take the click or the
\* submit of this run; yields the next position, the run and the selection
render(g, r, slots) ==
    IF slots = <<>>
    THEN [pc |-> "done",
          run |-> finish([r EXCEPT !.slots = <<>>, !.form = FALSE,
                                   !.msgs = r.msgs \cup {"no_slots"}]),
          sel |-> session[g].selected_slot_time]
    ELSE LET sel == IF r.kind = "slot" /\ InSeq(r.arg, slots)
                    THEN r.arg ELSE session[g].selected_slot_time
             r1 == [r EXCEPT !.slots = slots, !.form = TRUE, !.chosen = sel]
         IN IF r.kind = "confirm"
            THEN IF ~(r.arg = 1 /\ sel # NoSlot)
                 THEN [pc |-> "done",
                       run |-> finish([r1 EXCEPT !.msgs = r.msgs \cup {"please_pick"}]),
                       sel |-> sel]
                 ELSE [pc |-> "guard", run |-> r1, sel |-> sel]
            ELSE [pc |-> "done", run |-> finish(r1), sel |-> sel]

Rendered(g, out) ==
    /\ pc' = [pc EXCEPT ![g] = out.pc]
    /\ run' = [run EXCEPT ![g] = out.run]
    /\ session' = [session EXCEPT ![g].selected_slot_time = out.sel]

\* lines 645-673: read the day's events, build the busy list and the slots,
\* apply the lead time
\* (status: what the calendar service answers to the read)
DayViewRead(g, status) ==
    /\ pc[g] = "view"
    /\ IF read_raises(status)
       THEN /\ run' = [run EXCEPT ![g] = aborted(run[g])]
            /\ pc' = [pc EXCEPT ![g] = "done"]
       ELSE LET r == run[g]
                u == r.user
                events == graph_day_view(status, ToUTC(day_start(r.date)),
                                         ToUTC(day_end(r.date)))
                busy == busy_of(events)
                raw == build_slots(r.date, u.start_time, u.end_time,
                                   u.meeting_duration, busy)
                slots == lead_filter(raw, r.date, now)
                r1 == [r EXCEPT !.view_ok = (status = 200), !.nowl = now, !.busy = busy,
                                !.raw = raw, !.slots = slots]
            IN /\ run' = [run EXCEPT ![g] = [r1 EXCEPT !.idx = 1]]
               /\ pc' = [pc EXCEPT ![g] = "recheck"]
    /\ UNCHANGED <<now, users, cal, session, sm, auth, rd>>

DayView(g) == \E status \in ReadStatuses : DayViewRead(g, status)

\* lines 675-682: one is_interval_free call of the loop over the slots
\* (status: what the calendar service answers to the read of this call)
RecheckRead(g, status) ==
    /\ pc[g] = "recheck"
    /\ RECHECK_EACH_SLOT /\ run[g].slots # <<>>
    /\ LET r == run[g]
           t == r.slots[r.idx]
           s_local == Combine(r.date, t)
           e_local == s_local + r.user.meeting_duration
           keep == IF is_interval_free(status, s_local, e_local)
                   THEN Append(r.keep, t) ELSE r.keep
       IN IF read_raises(status)
          THEN /\ run' = [run EXCEPT ![g] = aborted(r)]
               /\ pc' = [pc EXCEPT ![g] = "done"]
               /\ UNCHANGED session
          ELSE IF r.idx < Len(r.slots)
          THEN /\ run' = [run EXCEPT ![g] = [r EXCEPT !.idx = r.idx + 1, !.keep = keep]]
               /\ UNCHANGED <<pc, session>>
          ELSE Rendered(g, render(g, shown(r), keep))
    /\ UNCHANGED <<now, users, cal, sm, auth, rd>>

Recheck(g) == \E status \in ReadStatuses : RecheckRead(g, status)

\* line 675 when there is nothing to re-check, then lines 684-688
NoRecheck(g) ==
    /\ pc[g] = "recheck"
    /\ ~(RECHECK_EACH_SLOT /\ run[g].slots # <<>>)
    /\ Rendered(g, render(g, shown(run[g]), run[g].slots))
    /\ UNCHANGED <<now, users, cal, sm, auth, rd>>

\* lines 717-722: the commit-time check of the chosen interval
Guard(g) ==
    /\ pc[g] = "guard"
    /\ \E status \in ReadStatuses :
         LET r == run[g]
             start_dt_local == Combine(r.date, r.chosen)
             end_dt_local == start_dt_local + r.user.meeting_duration
             free == is_interval_free(status, start_dt_local, end_dt_local)
         IN /\ run' = [run EXCEPT ![g] =
                        [r EXCEPT !.guard = [s |-> start_dt_local, e |-> end_dt_local,
                                             read_ok |-> (status = 200), free |-> free],
                                  !.msgs = IF free THEN r.msgs
                                           ELSE r.msgs \cup {"just_booked"}]]
            /\ pc' = [pc EXCEPT ![g] = after_guard(free)]
    /\ UNCHANGED <<now, users, cal, session, sm, auth, rd>>

\* lines 724-741, 759-762: graph_create_event and its outcome
Create(g) ==
    /\ pc[g] = "create"
    /\ \E status \in CreateStatuses :
         LET r == run[g]
             start_dt_local == Combine(r.date, r.chosen)
             end_dt_local == start_dt_local + r.user.meeting_duration
             ok == create_ok(status)
             next == after_create(ok, r.user.email)
             r1 == [r EXCEPT !.created = [s |-> start_dt_local, e |-> end_dt_local,
                                          ok |-> ok],
                             !.ncreate = r.ncreate + 1,
                             !.msgs = CASE next = "rerun" -> r.msgs \cup {"no_longer_available"}
                                        [] next = "done" -> r.msgs \cup {"booked"}
                                        [] OTHER -> r.msgs]
         IN /\ cal' = IF ok
                      THEN cal \cup {new_event(Cardinality(Booked) + 1, start_dt_local,
                                               end_dt_local, g)}
                      ELSE cal
            /\ run' = [run EXCEPT ![g] = IF next = "done" THEN finish(r1) ELSE r1]
            /\ pc' = [pc EXCEPT ![g] = next]
    /\ UNCHANGED <<now, users, session, sm, auth, rd>>

\* a variant that reports the booking only when the mail went out
after_mail_checked(ok) == IF ok THEN {"booked"} ELSE {"mail_failed"}

\* what the guest is told after graph_send_mail (lines 755-758): its result
\* is not looked at
after_mail(ok) == {"booked"}

\* lines 742-758: the notification to the host
Mail(g) ==
    /\ pc[g] = "mail"
    /\ \E status \in MailStatuses :
         run' = [run EXCEPT ![g] =
                   finish([run[g] EXCEPT !.nmail = run[g].nmail + 1,
                                         !.mail_ok = mail_ok(status),
                                         !.msgs = run[g].msgs \cup
                                                  after_mail(mail_ok(status))])]
    /\ pc' = [pc EXCEPT ![g] = "done"]
    /\ UNCHANGED <<now, users, cal, session, sm, auth, rd>>

-----------------------------------------------------------------------------
(* Sign-in *)

\* create_auth_url (lines 107-111): a pending flow is stored under a fresh id
create_auth_url(s) ==
    /\ s \notin auth.issued
    /\ auth' = [auth EXCEPT !.flows = @ \cup {s}, !.issued = @ \cup {s}]
    /\ UNCHANGED <<now, users, cal, session, pc, run, sm, rd>>

\* finish_auth_redirect, lines 114-120: the query is read and the record
\* looked up
Redirect(q, s, has_code) ==
    /\ auth.req[q].pc \in {"idle", "done"}
    /\ s \in auth.issued
    /\ LET r == [ReqIdle EXCEPT !.state = s, !.late = (s \in auth.attempted)]
       IN auth' = [auth EXCEPT !.req[q] =
                     IF ~has_code THEN [r EXCEPT !.pc = "done", !.msg = "missing_parameters"]
                     ELSE IF s \notin auth.flows
                     THEN [r EXCEPT !.pc = "done", !.msg = "expired"]
                     ELSE [r EXCEPT !.pc = "found"]]
    /\ UNCHANGED <<now, users, cal, session, pc, run, sm, rd>>

\* lines 124-125: the code exchange, with the flow read from the record
Exchange(q) ==
    /\ auth.req[q].pc = "found"
    /\ \E outcome \in ExchangeOutcomes :
         auth' = [auth EXCEPT !.req[q].pc = "finally", !.req[q].result = outcome,
                              !.exchanges[auth.req[q].state] = @ + 1]
    /\ UNCHANGED <<now, users, cal, session, pc, run, sm, rd>>

\* a variant that deletes the record only when a token was obtained
consumed_on_success(outcome) == outcome \in {"token", "no_oid"}

\* lines 126-129: the finally clause runs whatever the exchange gave
consumed(outcome) == TRUE

\* the message of finish_auth_redirect after the exchange (lines 127, 131-139)
after_exchange(outcome) ==
    CASE outcome = "raise" -> "failed_to_complete"
      [] outcome = "error" -> "no_access_token"
      [] outcome = "no_oid" -> "missing_oid"
      [] OTHER -> ""

\* lines 126-139: delete_one of the finally clause, then the error returns
Delete(q) ==
    /\ auth.req[q].pc = "finally"
    /\ LET r == auth.req[q]
           msg == after_exchange(r.result)
       IN auth' = [auth EXCEPT
                     !.flows = IF consumed(r.result) THEN @ \ {r.state} ELSE @,
                     !.attempted = @ \cup {r.state},
                     !.req[q] = IF msg = "" THEN [r EXCEPT !.pc = "signed"]
                                ELSE [r EXCEPT !.pc = "done", !.msg = msg]]
    /\ UNCHANGED <<now, users, cal, session, pc, run, sm, rd>>

\* lines 141-166: the profile is updated and the new token cache stored
SignedIn(q) ==
    /\ auth.req[q].pc = "signed"
    /\ \E email \in Emails :
         users' = [users EXCEPT !.email = IF email # "" THEN email ELSE @,
                                !.msal_cache = SignInCache]
    /\ auth' = [auth EXCEPT !.req[q].pc = "done", !.req[q].msg = "signed_in"]
    /\ UNCHANGED <<now, cal, session, pc, run, sm, rd>>

-----------------------------------------------------------------------------
(* The host and the world *)

\* dashboard with "Save Settings": the credential test of line 456, then the
\* form's values are stored as entered (lines 524-533)
SaveSettings(ws, we, dur, days) ==
    /\ \E o \in Renewals :
         LET got == get_access_token_for_user_doc(users, users.msal_cache, o[1], o[2])
         IN /\ o[1] = "renewed" => users.msal_cache < SignInCache + MaxRenewals
            /\ users' = [users EXCEPT !.start_time = ws, !.end_time = we,
                                      !.meeting_duration = dur, !.available_days = days,
                                      !.msal_cache = got.stored]
    /\ users' # users
    /\ UNCHANGED <<now, cal, session, pc, run, sm, auth, rd>>

\* the host adds an event from another calendar client
AddHostEvent(ev) ==
    /\ ev \notin cal
    /\ cal' = cal \cup {ev}
    /\ UNCHANGED <<now, users, session, pc, run, sm, auth, rd>>

\* time passes
Tick(t) ==
    /\ t > now
    /\ now' = t
    /\ UNCHANGED <<users, cal, session, pc, run, sm, auth, rd>>

-----------------------------------------------------------------------------
(* Specifications *)

Next ==
    \/ \E g \in Guests : Load(g)
    \/ \E g \in Guests, d \in Days : PickDate(g, d)
    \/ \E g \in Guests, t \in SlotTimes : ClickSlot(g, t)
    \/ \E g \in Guests, filled \in BOOLEAN : Confirm(g, filled, MaxBookings)
    \/ \E g \in Guests : Rerun(g)
    \/ \E g \in Guests : DayView(g)
    \/ \E g \in Guests : Recheck(g)
    \/ \E g \in Guests : NoRecheck(g)
    \/ \E g \in Guests : Guard(g)
    \/ \E g \in Guests : Create(g)
    \/ \E g \in Guests : Mail(g)
    \/ \E ev \in HostEvents : AddHostEvent(ev)

Spec == Init /\ [][Next]_vars

\* one guest, while the host changes the settings and time passes
InitHost ==
    /\ now = Combine(0, 480)
    /\ users \in {Renewed(NewUser(m)) : m \in Emails}
    /\ cal = {}
    /\ session = [g \in Guests |-> [picked_date |-> NoDate, selected_slot_time |-> NoSlot]]
    /\ pc = [g \in Guests |-> "idle"]
    /\ run = [g \in Guests |-> RunIdle]
    /\ sm = SMIdle
    /\ auth = AuthIdle
    /\ rd = RDIdle

NextHost ==
    \/ Load(Guest1)
    \/ \E d \in Days : PickDate(Guest1, d)
    \/ \E t \in SlotTimes : ClickSlot(Guest1, t)
    \/ \E filled \in BOOLEAN : Confirm(Guest1, filled, MaxHostBookings)
    \/ Rerun(Guest1)
    \/ DayView(Guest1)
    \/ Recheck(Guest1)
    \/ NoRecheck(Guest1)
    \/ Guard(Guest1)
    \/ Create(Guest1)
    \/ Mail(Guest1)
    \/ \E f \in Settings : SaveSettings(f[1], f[2], f[3], f[4])
    \/ \E t \in NowValues : Tick(t)

SpecHost == InitHost /\ [][NextHost]_vars

\* sign-in and the credential cache: redirects, the dashboard, and a guest
\* who loads the booking page, for a host who has signed in once
InitAuth ==
    /\ now = Combine(0, 480)
    /\ users \in {NewUser(m) : m \in Emails}
    /\ cal = {}
    /\ session = [g \in Guests |-> [picked_date |-> NoDate, selected_slot_time |-> NoSlot]]
    /\ pc = [g \in Guests |-> "idle"]
    /\ run = [g \in Guests |-> RunIdle]
    /\ sm = SMIdle
    /\ auth = AuthIdle
    /\ rd = RDIdle

NextAuth ==
    \/ \E s \in AuthStates : create_auth_url(s)
    \/ \E q \in Redirects, s \in AuthStates, has_code \in BOOLEAN : Redirect(q, s, has_code)
    \/ \E q \in Redirects : Exchange(q)
    \/ \E q \in Redirects : Delete(q)
    \/ \E q \in Redirects : SignedIn(q)
    \/ \E f \in Settings : SaveSettings(f[1], f[2], f[3], f[4])
    \/ Load(Guest1)
    \/ DayView(Guest1)
    \/ Recheck(Guest1)
    \/ NoRecheck(Guest1)

SpecAuth == InitAuth /\ [][NextAuth]_vars

\* the slots a guest is shown while the re-check reads of the render
\* succeed, on a calendar with all-day and overnight events
InitDay ==
    /\ now = Combine(0, 480)
    /\ users \in {Renewed(NewUser("")), Renewed(Profile("", 540, 600, 60))}
    /\ cal = {}
    /\ session = [g \in Guests |-> [picked_date |-> NoDate, selected_slot_time |-> NoSlot]]
    /\ pc = [g \in Guests |-> "idle"]
    /\ run = [g \in Guests |-> RunIdle]
    /\ sm = SMIdle
    /\ auth = AuthIdle
    /\ rd = RDIdle

NextDay ==
    \/ Load(Guest1)
    \/ \E d \in Days : PickDate(Guest1, d)
    \/ \E status \in ReadStatuses \cup {Timeout} : DayViewRead(Guest1, status)
    \/ RecheckRead(Guest1, 200)
    \/ RecheckRead(Guest1, Timeout)
    \/ NoRecheck(Guest1)
    \/ \E ev \in DayEvents : AddHostEvent(ev)

SpecDay == InitDay /\ [][NextDay]_vars

\* build_slots alone, on drawn inputs
InitSlots ==
    /\ now = Combine(0, 480)
    /\ users = NewUser("")
    /\ cal = {}
    /\ session = [g \in Guests |-> [picked_date |-> NoDate, selected_slot_time |-> NoSlot]]
    /\ pc = [g \in Guests |-> "idle"]
    /\ run = [g \in Guests |-> RunIdle]
    /\ sm \in SMInputs
    /\ auth = AuthIdle
    /\ rd = RDIdle

NextSlots == SMCompute \/ SMReset

SpecSlots == InitSlots /\ [][NextSlots]_vars

-----------------------------------------------------------------------------
(* Properties of build_slots, under SpecSlots *)

\* the step grid of a work window, written without the loop
Grid(ws, we, dur) == {t \in ws..we : (t - ws) % dur = 0 /\ t + dur <= we}

\* slot [t, t + dur) and busy interval b have a minute in common
SharesTime(t, dur, b) == \E m \in t..(t + dur - 1) : b[1] <= m /\ m < b[2]

SeqSet(sq) == {sq[i] : i \in 1..Len(sq)}
Ascending(sq) == \A i \in 1..Len(sq), j \in 1..Len(sq) : i < j => sq[i] < sq[j]

\* C9: build_slots returns no slot that has time in common with a busy
\* interval, and returns every grid slot that has none, so a slot that only
\* touches a busy interval at an endpoint stays in the result.
C9_BusyExcludedTouchingKept ==
    sm.done =>
        /\ \A t \in SeqSet(sm.out), b \in sm.busy : ~SharesTime(t, sm.dur, b)
        /\ \A t \in Grid(sm.ws, sm.we, sm.dur) :
              (\A b \in sm.busy : ~SharesTime(t, sm.dur, b)) => t \in SeqSet(sm.out)

\* 09:00-11:00 in 30-minute steps with 10:00-10:30 busy: 10:00 is left out,
\* 09:30 (ends when the busy interval starts) and 10:30 (starts when it ends)
\* are returned
C9_Witness ==
    /\ sm.done /\ sm.ws = 540 /\ sm.we = 660 /\ sm.dur = 30
    /\ <<600, 630>> \in sm.busy
    /\ 570 \in SeqSet(sm.out) /\ 630 \in SeqSet(sm.out) /\ 600 \notin SeqSet(sm.out)

\* C10: with no busy interval build_slots returns exactly the step grid of
\* the work window, ascending and without duplicates: it starts at
\* work_start, no slot ends after work_end, an empty window or a duration
\* longer than the window gives nothing, and 09:00-17:00 in 30-minute steps
\* gives the 16 slots 09:00 .. 16:30.
C10_FreeDayIsGrid ==
    (sm.done /\ sm.busy = {}) =>
        /\ SeqSet(sm.out) = Grid(sm.ws, sm.we, sm.dur)
        /\ Ascending(sm.out)
        /\ sm.out # <<>> => sm.out[1] = sm.ws
        /\ \A t \in SeqSet(sm.out) : t + sm.dur <= sm.we
        /\ (sm.we <= sm.ws \/ sm.dur > sm.we - sm.ws) => sm.out = <<>>
        /\ (sm.ws = 540 /\ sm.we = 1020 /\ sm.dur = 30) =>
              /\ Len(sm.out) = 16
              /\ sm.out[1] = 540
              /\ sm.out[16] = 990

C10_Witness ==
    /\ sm.done /\ sm.busy = {}
    /\ sm.ws = 540 /\ sm.we = 1020 /\ sm.dur = 30
    /\ Len(sm.out) = 16

-----------------------------------------------------------------------------
(* Properties of the booking protocol *)

Overlapping(a, b) == a.s < b.e /\ b.s < a.e

\* the interval a run is about to check and commit
RunStart(r) == Combine(r.date, r.chosen)
RunEnd(r) == RunStart(r) + r.user.meeting_duration

\* C1: the calendar never holds two events created by the booking page whose
\* intervals overlap.
C1_NoDoubleBooking ==
    \A a \in Booked, b \in Booked : a.id # b.id => ~Overlapping(a, b)

\* C2: a run calls graph_create_event only after is_interval_free returned
\* true in that same run, for the very interval of the event it creates.
C2_GuardBeforeCreate ==
    \A g \in Guests :
        LET r == run[g] IN
        /\ pc[g] = "create" =>
              r.guard.free /\ r.guard.s = RunStart(r) /\ r.guard.e = RunEnd(r)
        /\ r.ncreate > 0 =>
              r.guard.free /\ r.guard.s = r.created.s /\ r.guard.e = r.created.e

C2_Witness ==
    \E g \in Guests : run[g].ncreate = 1 /\ run[g].created.ok /\ run[g].guard.free

\* C3: when the commit-time check of a run reads the calendar successfully
\* and the calendar already holds a created event for the same interval, the
\* check reports not free and the run ends rejected: it tells the guest,
\* asks for a rerun and leaves the calendar as it is.
C3_SecondAttemptRejected ==
    [][\A g \in Guests :
          ( /\ pc[g] = "guard" /\ pc'[g] # "guard"
            /\ run'[g].guard.read_ok
            /\ \E ev \in Booked : /\ ev.s = ToUTC(RunStart(run[g]))
                                  /\ ev.e = ToUTC(RunEnd(run[g])) )
          => ( /\ ~run'[g].guard.free
               /\ pc'[g] = "rerun"
               /\ "just_booked" \in run'[g].msgs
               /\ run'[g].ncreate = 0
               /\ cal' = cal )]_vars

\* the other guest's event is on the calendar and this guest's check of the
\* same interval, read successfully, turned the booking down
C3_Witness ==
    \E g \in Guests :
        /\ pc[g] = "rerun" /\ run[g].guard.read_ok /\ ~run[g].guard.free
        /\ \E ev \in Booked : /\ ev.s = ToUTC(run[g].guard.s)
                              /\ ev.e = ToUTC(run[g].guard.e)
                              /\ ev.attendees # {g}

\* C4: when the commit-time check reports not free, the run makes no create
\* and no notification call, tells the guest the slot was just taken, asks
\* for the slot list to be recomputed, and no longer holds the rejected slot
\* as the selected slot.
C4_RejectedSelectionDiscarded ==
    \A g \in Guests :
        (pc[g] = "rerun" /\ "just_booked" \in run[g].msgs) =>
            /\ run[g].ncreate = 0 /\ run[g].nmail = 0
            /\ session[g].selected_slot_time # run[g].chosen

\* C5: when the create call returns a non-success status the run sends no
\* notification, tells the guest to pick another time, asks for the slot
\* list to be recomputed and does not report success.
C5_CreateFailureReported ==
    \A g \in Guests :
        (run[g].ncreate > 0 /\ ~run[g].created.ok) =>
            /\ pc[g] = "rerun"
            /\ run[g].nmail = 0
            /\ "no_longer_available" \in run[g].msgs
            /\ "booked" \notin run[g].msgs

C5_Witness ==
    \E g \in Guests : run[g].ncreate = 1 /\ ~run[g].created.ok /\ pc[g] = "rerun"

\* the event a run created is on the calendar as a busy event with the guest
\* as its attendee
EventPosted(g) ==
    \E ev \in Booked : /\ ev.s = ToUTC(run[g].created.s)
                       /\ ev.e = ToUTC(run[g].created.e)
                       /\ ev.showAs = "busy" /\ ~ev.isCancelled
                       /\ ev.attendees = {g}

C7_FailOpenRead ==
    \A g \in Guests :
        LET r == run[g]
            u == r.user
        IN (pc[g] = "recheck" /\ ~r.view_ok) =>
              /\ r.busy = {}
              /\ SeqSet(r.raw) = Grid(u.start_time, u.end_time, u.meeting_duration)
              /\ Len(r.raw) = Cardinality(Grid(u.start_time, u.end_time, u.meeting_duration))
              /\ r.slots = lead_filter(r.raw, r.date, r.nowl)

\* the query failed while a blocking event lies on the first slot of the day
C7_Witness ==
    \E g \in Guests :
        LET r == run[g] IN
        /\ pc[g] = "recheck" /\ ~r.view_ok /\ r.raw # <<>>
        /\ \E ev \in cal : /\ ev.showAs = "busy"
                           /\ ev.s < ToUTC(Combine(r.date, r.raw[1]) + r.user.meeting_duration)
                           /\ ev.e > ToUTC(Combine(r.date, r.raw[1]))

\* C8: when the selected day is the current date, no displayed slot starts
\* at or before now + MIN_LEAD_MINUTES.
C8_LeadTimeRespected ==
    \A g \in Guests :
        LET r == run[g] IN
        (pc[g] = "done" /\ r.form /\ r.date = DateOf(r.nowl)) =>
            \A t \in SeqSet(r.slots) : Combine(r.date, t) > r.nowl + MIN_LEAD_MINUTES

\* the Reader's busy list and the Guard's loop alone, on drawn responses
InitReader ==
    /\ now = Combine(0, 480)
    /\ users = NewUser("")
    /\ cal = {}
    /\ session = [g \in Guests |-> [picked_date |-> NoDate, selected_slot_time |-> NoSlot]]
    /\ pc = [g \in Guests |-> "idle"]
    /\ run = [g \in Guests |-> RunIdle]
    /\ sm = SMIdle
    /\ auth = AuthIdle
    /\ rd \in RDInputs

NextReader == RDCompute \/ RDReset

SpecReader == InitReader /\ [][NextReader]_vars

-----------------------------------------------------------------------------
(* The stored policy *)

\* C11 (as stated): after any sequence of settings saves the stored policy
\* has start before end and a positive duration, and the slots of a booking
\* page are never computed from a policy whose start is not before its end.
C11_PolicyValid ==
    /\ users.start_time < users.end_time
    /\ users.meeting_duration > 0
    /\ \A g \in Guests :
         pc[g] = "recheck" => run[g].user.start_time < run[g].user.end_time

-----------------------------------------------------------------------------
(* Without a credential *)

\* C12: a booking run whose credential request returned nothing stands at
\* its end with the message that the host has not connected the calendar
\* (or never reached the request): it has read no calendar, computed no
\* slots, shown no form, run no commit-time check, made no create-event call
\* and sent no mail.
C12_NoCredentialNoCalendar ==
    \A g \in Guests :
        /\ ~run[g].token =>
             /\ pc[g] \in {"idle", "done"}
             /\ run[g].nowl = -1 /\ run[g].slots = <<>> /\ ~run[g].form
             /\ run[g].guard = NoGuard /\ run[g].created = NoCall
             /\ run[g].ncreate = 0 /\ run[g].nmail = 0
             /\ run[g].msgs \subseteq {"not_connected", "choose_working_day"}
        /\ "not_connected" \in run[g].msgs =>
             ~run[g].token /\ run[g].msgs = {"not_connected"}

\* a run on a working day was refused for want of a credential
C12_Witness ==
    \E g \in Guests :
        /\ pc[g] = "done" /\ run[g].msgs = {"not_connected"}
        /\ Weekday(run[g].date) \in run[g].user.available_days

-----------------------------------------------------------------------------
(* Sign-in and the credential cache *)

\* C13: once an exchange attempt for a pending flow has run to its end,
\* whatever it gave, the record is gone from auth_flows, and a redirect that
\* arrives after that with the same state id and a code is answered as
\* expired and makes no exchange.
C13_OneShotFlow ==
    /\ auth.attempted \cap auth.flows = {}
    /\ \A q \in Redirects :
         LET r == auth.req[q]
         IN /\ (r.pc \in {"signed", "done"} /\ r.result # NoResult) =>
                  r.state \notin auth.flows
            /\ r.late =>
                  /\ r.pc = "done" /\ r.result = NoResult
                  /\ r.msg \in {"expired", "missing_parameters"}

\* a redirect came after an attempt that raised, and was answered as expired
C13_Witness ==
    \E q, q2 \in Redirects :
        /\ auth.req[q].late /\ auth.req[q].msg = "expired"
        /\ auth.req[q2].pc = "done" /\ auth.req[q2].result = "raise"
        /\ auth.req[q2].state = auth.req[q].state

\* C19 (as stated): the code exchange is called at most once for one
\* pending-flow record, however redirects with its state id interleave.
C19_ExchangeAtMostOnce ==
    \A s \in AuthStates : auth.exchanges[s] <= 1

\* C16: every step leaves a token cache stored; the stored cache changes
\* only to the cache of a renewal that gave a token, or to the cache of a
\* completed sign-in; a booking run whose credential request gave nothing
\* leaves it as it was, and so does a dashboard run that saves settings,
\* but for such a renewal.
C16_CacheWrittenOnlyOnSuccess ==
    [][ /\ users'.msal_cache # NoCache
        /\ users'.msal_cache # users.msal_cache =>
             \/ /\ users'.msal_cache = users.msal_cache + 1
                /\ \A g \in Guests : run'[g] # run[g] => run'[g].token
             \/ \E q \in Redirects :
                  /\ auth.req[q].pc = "signed" /\ auth'.req[q].msg = "signed_in"
                  /\ users'.msal_cache = SignInCache
        /\ \A g \in Guests :
             (run'[g] # run[g] /\ "not_connected" \in run'[g].msgs) =>
                 users'.msal_cache = users.msal_cache
      ]_vars

\* a credential request gave nothing while a renewed cache is stored
C16_Witness ==
    \E g \in Guests :
        /\ run[g].msgs = {"not_connected"}
        /\ users.msal_cache > SignInCache

-----------------------------------------------------------------------------
(* Displayed slots against the calendar *)

\* the non-cancelled blocking events of the calendar that overlap the local
\* interval [s_local, e_local)
Blocking(s_local, e_local) ==
    {ev \in cal : /\ ~ev.isCancelled
                  /\ show_as(ev) \in BUSY_STATUSES
                  /\ ev.s < ToUTC(e_local) /\ ToUTC(s_local) < ev.e}

\* C14: with the re-check reads succeeding, each step of the re-check loop
\* adds to the slots kept, and then displayed, at most the slot it checked,
\* and only when no non-cancelled blocking event on the calendar overlaps
\* that slot's interval, all-day events and events that begin on an earlier
\* day or end on a later day included.
C14_DisplayedSlotsFree ==
    [][ \A g \in Guests :
          (pc[g] = "recheck" /\ run[g].slots # <<>> /\ run'[g] # run[g]) =>
              LET r == run[g]
                  t == r.slots[r.idx]
                  s_local == Combine(r.date, t)
                  after == IF pc'[g] = "recheck" THEN SeqSet(run'[g].keep)
                           ELSE SeqSet(run'[g].slots)
              IN /\ after \subseteq SeqSet(r.keep) \cup {t}
                 /\ t \in after => Blocking(s_local, s_local + r.user.meeting_duration) = {}
      ]_vars

\* a page shows one slot of a day that holds an all-day event or an event
\* that began the day before: the other slot was dropped by the re-check
C14_Witness ==
    \E g \in Guests :
        /\ pc[g] = "done" /\ run[g].form /\ Len(run[g].slots) = 1
        /\ \E ev \in cal : ev.id \in {-2, -3} /\ DateOf(FromUTC(ev.e) - 1) = run[g].date
        /\ Blocking(Combine(run[g].date, run[g].slots[1]),
                    Combine(run[g].date, run[g].slots[1]) + run[g].user.meeting_duration) = {}

\* C20 (as stated): every busy interval handed to build_slots has its start
\* before its end, as times of day.
C20_BusyIntervalsOrdered ==
    \A g \in Guests :
        pc[g] = "recheck" => \A b \in run[g].busy : b[1] < b[2]

\* C15 (as stated): a calendar read that times out is handled like a failed
\* read; no booking request ends as an unhandled error.
C15_TimeoutFailsOpen ==
    \A g \in Guests : "unhandled_exception" \notin run[g].msgs

-----------------------------------------------------------------------------
(* What a Confirm commits *)

\* C17 (as stated): an event a Confirm creates starts at a slot of the slot
\* list that same run computed for the selected day; a selection left in the
\* session by an earlier render is not committed when the list lacks it.
C17_CommitWithinCurrentSlots ==
    \A g \in Guests :
        run[g].created # NoCall =>
            /\ DateOf(run[g].created.s) = run[g].date
            /\ InSeq(TimeOf(run[g].created.s), run[g].slots)

\* C18 (as stated): the commit-time check reports the interval free only
\* after a read that succeeded, and no create-event call follows a check
\* whose read did not succeed.
C18_GuardNeedsSuccessfulRead ==
    \A g \in Guests :
        /\ run[g].guard.free => run[g].guard.read_ok
        /\ run[g].created # NoCall => run[g].guard.read_ok

-----------------------------------------------------------------------------
(* Classification of returned events *)

\* the blocking rule over the tags as the service writes them: busy, oof,
\* workingelsewhere, tentative in any case of letters, or no tag
TagBlocks(tag) ==
    tag \in {"", "busy", "oof", "workingElsewhere", "workingelsewhere",
             "Tentative", "tentative"}

RuleBlocking(ev) == ~ev.isCancelled /\ TagBlocks(ev.showAs)

\* C21: the Reader and the Guard take the same events as blocking, those
\* that are not cancelled and whose tag is busy, oof, workingelsewhere or
\* tentative in any case of letters, or missing; on a response all of whose
\* events can be read, the Guard reports free exactly when the Reader's busy
\* list is empty.
C21_SameClassification ==
    /\ \A ev \in rd.events :
         /\ reader_blocking(ev) = guard_blocking(ev)
         /\ guard_blocking(ev) = RuleBlocking(ev)
    /\ rd.done =>
         /\ rd.free = ~(\E ev \in rd.events : RuleBlocking(ev))
         /\ (\A ev \in rd.events : parses(ev.start) /\ parses(ev.end)) =>
                (rd.free = (rd.busy = {}))

\* both have judged a response with a Tentative event and a free one
C21_Witness ==
    /\ rd.done /\ ~rd.free /\ Cardinality(rd.busy) = 1
    /\ {ev.showAs : ev \in rd.events} = {"Tentative", "free"}

\* C22: an event whose start or end cannot be read is passed over alone: the
\* busy list holds the intervals of exactly the other non-cancelled blocking
\* events of the response.
C22_MalformedSkippedAlone ==
    rd.done =>
        rd.busy = {<<ev.start, ev.end>> :
                     ev \in {x \in rd.events : /\ RuleBlocking(x)
                                               /\ x.start # Malformed
                                               /\ x.end # Malformed}}

\* a response with one unreadable event among two readable blocking ones
C22_Witness ==
    /\ rd.done /\ Cardinality(rd.events) = 3 /\ Cardinality(rd.busy) = 2
    /\ \E ev \in rd.events : RuleBlocking(ev) /\ ev.start = Malformed

-----------------------------------------------------------------------------
(* The notification *)

\* C23: a run whose mail to the host was answered with a non-success status
\* has made its one create call and no other call, the event it created is
\* on the calendar as created, and the guest is told that the booking is
\* made and nothing else.
C23_MailFailureChangesNothing ==
    \A g \in Guests :
        (run[g].nmail > 0 /\ ~run[g].mail_ok) =>
            /\ pc[g] = "done"
            /\ run[g].ncreate = 1 /\ run[g].nmail = 1 /\ run[g].created.ok
            /\ run[g].msgs = {"booked"}
            /\ \E ev \in Booked :
                 /\ ev.s = ToUTC(run[g].created.s) /\ ev.e = ToUTC(run[g].created.e)
                 /\ ev.attendees = {g}
                 /\ ~ev.isCancelled /\ ev.showAs = "busy"

\* a booking whose mail to the host failed
C23_Witness ==
    \E g \in Guests :
        /\ pc[g] = "done" /\ run[g].nmail = 1 /\ ~run[g].mail_ok
        /\ "booked" \in run[g].msgs

-----------------------------------------------------------------------------
(* Write-through renewal *)

\* C24 (as stated): when a booking run gets a credential and the renewal
\* changed the token cache it had read from the profile, the profile holds
\* the changed cache by the time the run goes on with the credential.
C24_WriteThroughRenewal ==
    [][ \A g \in Guests :
          (Idle(g) /\ pc'[g] = "view" /\ run'[g].token
                   /\ run'[g].cache # users.msal_cache) =>
              users'.msal_cache = run'[g].cache
      ]_vars

=============================================================================
